---- MODULE Spec2Model ----
(***************************************************************************)
(* Session Lifecycle Manager of the WhatsApp backend (services/waManager). *)
(* The module-level map `clients`, the session collection of the store,    *)
(* the whatsapp-web.js Client objects and every async function of the      *)
(* manager are modelled.  An action is one synchronous segment of the      *)
(* JavaScript code: it starts when an awaited operation completes and runs *)
(* to the next await.                                                      *)
(***************************************************************************)
EXTENDS Integers, FiniteSets, Sequences, TLC

\* ---- bounds ----
MaxSid == 2          \* session ids 1..MaxSid
MaxApiSid == 1       \* session ids the API calls are made for: 1..MaxApiSid
MaxHandles == 2      \* Client objects constructed in one run
NApi == 2            \* API calls in flight at one time
MaxCalls == 2        \* API calls made in one run
maxAttempts == 2     \* readiness polls of restoreSession (30 in the source)
MaxTo == 2           \* recipients of a batch request
MaxSess == 2         \* session ids of a batch request
MaxItems == 2        \* content items of a batch request
MaxDelay == 1        \* largest delayMin / delayMax a caller supplies
MaxHead == 2         \* characters of a recipient token before its tail
MaxChats == 2        \* chats of a listing
MaxGroups == 3       \* groups selected in one multi-group request
MaxMembers == 2      \* participants listed by one group
MaxPhones == 2       \* distinct phone numbers
MaxUrls == 2         \* distinct webhook URLs

Sids == 1 .. MaxSid
ApiSids == 1 .. MaxApiSid
Owners == {1}
HandleIds == 1 .. MaxHandles
ApiTasks == 1 .. NApi
BootTask(s) == NApi + s
BootTasks == {BootTask(s) : s \in Sids}
Tasks == ApiTasks \cup BootTasks

\* the retention of startNewSession, in milliseconds
TerminalMaxAge == 3600000
QrMaxAge == 600000

TerminalStatus == {"disconnected", "auth_failed", "failed", "network_error"}
InitStatus == {"connected", "disconnected"}

VARIABLES
  store,     \* session collection: sessionId -> document
  clients,   \* the Map `clients`: sessionId -> handle id, 0 when absent
  handles,   \* every Client constructed so far
  tasks,     \* the async calls in flight and where each one is suspended
  booted,    \* restoreSessions has taken its snapshot
  used,      \* session ids allocated so far (never reused)
  calls,     \* API calls made so far
  restoreReq, \* ids whose document is terminal and for which Restore was requested since
  ret,       \* the call that returned in the last step, NoRet otherwise
  notes,     \* notifySessionUpdate calls made in the last step
  breq,      \* the batch request being served (message controller)
  bpc,       \* where the batch run is suspended
  bi,        \* index of the current recipient
  bj,        \* index of the current session in sessionIds
  bk,        \* index of the current content item
  clientMap, \* indexes of the sessions whose client is ready
  results,   \* the ledger `results`
  sent,      \* messageCount
  wait,      \* the delay being slept, None otherwise
  order,     \* the (recipient, session) pairs in the order they were begun
  resp,      \* the HTTP response, NoResp until it is sent
  unpooled,  \* sessions of clientMap whose client has left the pool since
  resolver,  \* the call of resolveRecipient being served
  collect,   \* the member collection of sendBatchToMultipleGroups being run
  webhook,   \* the webhook manager: its two URL tables and the sendWebhook call being served
  updatedAt  \* sessionId -> milliseconds since `updatedAt` of the document the process found at its start

managerVars == <<store, clients, handles, tasks, booted, used, calls, restoreReq, ret, notes>>
batchVars == <<breq, bpc, bi, bj, bk, clientMap, results, sent, wait, order, resp,
               unpooled>>
helperVars == <<resolver, collect, webhook, updatedAt>>
vars == <<managerVars, batchVars, helperVars>>

NoRec == [status |-> "absent", qr |-> FALSE, owner |-> 0]
NoHandle == [sid |-> 0, phase |-> "none", live |-> FALSE, u |-> 0]
Idle == [op |-> "idle", pc |-> "idle", sid |-> 0, h |-> 0, n |-> 0, u |-> 0, err |-> "none"]
NoRet == [op |-> "none", sid |-> 0, res |-> "none", h |-> 0, n |-> 0]

Exists(s) == store[s].status # "absent"

\* client.info: set by the library when the handle becomes ready, never cleared
Info(h) == handles[h].phase \in {"ready", "off"}

FreeHandles == {h \in HandleIds : handles[h].sid = 0}
NewHandle == CHOOSE h \in FreeHandles : \A g \in FreeHandles : h <= g

FreeSids == Sids \ used
NewSid == CHOOSE s \in FreeSids : \A r \in FreeSids : s <= r

\* findOneAndUpdate(..., {status, updatedAt}) without upsert
UpdateStatus(st, s, status) ==
  IF st[s].status = "absent" THEN st
  ELSE [st EXCEPT ![s].status = status]

\* findOneAndUpdate(..., {status, updatedAt}, {upsert: true})
UpsertStatus(st, s, status) ==
  IF st[s].status = "absent"
  THEN [st EXCEPT ![s] = [status |-> status, qr |-> FALSE, owner |-> 0]]
  ELSE [st EXCEPT ![s].status = status]

\* no batch request is being served
NoReq == [mode |-> "none", nto |-> 0, nsess |-> 0, items |-> 0, dmin |-> {}, dmax |-> {}]
NoResp == [code |-> 0, results |-> <<>>, total |-> 0, counts |-> {}]

\* results.filter(r => r.status === status).length
StatusCount(res, status) ==
  Cardinality({n \in 1 .. Len(res) : res[n].status = status})

\* res.json({ success: true, total, results }), with `sent` and `failed`
\* beside them in every sender but sendBatchMessage
Response(mode, res) ==
  [code |-> 200, results |-> res, total |-> Len(res),
   counts |-> IF mode = "many" THEN {}
              ELSE {[sent |-> StatusCount(res, "sent"),
                     failed |-> StatusCount(res, "failed")]}]

\* res.status(code).json({ error })
ErrorResponse(code) == [code |-> code, results |-> <<>>, total |-> 0, counts |-> {}]

InitBatch ==
  /\ breq = NoReq
  /\ bpc = "idle"
  /\ bi = 0 /\ bj = 0 /\ bk = 0
  /\ clientMap = {}
  /\ results = <<>>
  /\ sent = 0
  /\ wait = {}
  /\ order = <<>>
  /\ resp = NoResp
  /\ unpooled = {}

\* no recipient is being resolved, no members are being collected
NoResolved == [id |-> {}, partialMatch |-> FALSE, error |-> FALSE]
NoChats == [ok |-> FALSE, list |-> <<>>]

InitHelper ==
  /\ resolver = [pc |-> "idle"]
  /\ collect = [pc |-> "idle"]
  /\ webhook = [pc |-> "idle"]
  /\ updatedAt = [s \in Sids |-> 0]

\* the module has been loaded: nothing is pooled, no call is in flight
InitManager ==
  /\ clients = [s \in Sids |-> 0]
  /\ handles = [h \in HandleIds |-> NoHandle]
  /\ tasks = [t \in Tasks |-> Idle]
  /\ booted = FALSE
  /\ calls = 0
  /\ restoreReq = {}
  /\ ret = NoRet
  /\ notes = {}

\* the server serving requests: the store holds records of earlier runs
\* for the ids 1..MaxApiSid; the other ids are not available
Init ==
  /\ store \in [Sids -> {NoRec} \cup
                 {[status |-> x, qr |-> FALSE, owner |-> 1] : x \in InitStatus}]
  /\ \A s \in Sids \ ApiSids : store[s] = NoRec
  /\ used = {s \in Sids : store[s].status # "absent"} \cup (Sids \ ApiSids)
  /\ InitManager
  /\ InitBatch
  /\ InitHelper

\* restoreReq after a step: `called` are the ids restoreSession was called
\* for in the step; a write of another status forgets the request
ReqNext(called) ==
  restoreReq' = {s \in Sids :
                   /\ store'[s].status \in TerminalStatus
                   /\ \/ s \in called
                      \/ s \in restoreReq /\ store'[s].status = store[s].status}

\* a request arrives: it takes the first free slot
CanCall(t) ==
  /\ t \in ApiTasks
  /\ tasks[t].op = "idle"
  /\ \A r \in ApiTasks : r < t => tasks[r].op # "idle"
  /\ calls < MaxCalls

\* ---------------------------------------------------------------------
\* createClient: return and throw, as seen by each caller
\* ---------------------------------------------------------------------

\* restoreSession returned client c to its caller
RestoreReturned(t, tk, c) ==
  /\ tasks' = [tasks EXCEPT ![t] = Idle]
  /\ ret' = IF tk.op = "restore"
            THEN [op |-> "restore", sid |-> tk.sid, res |-> "ok", h |-> c, n |-> 0]
            ELSE IF Info(c)
                 THEN [op |-> "getOrRestore", sid |-> tk.sid, res |-> "ok", h |-> c, n |-> 0]
                 ELSE [op |-> "getOrRestore", sid |-> tk.sid, res |-> "unavailable", h |-> c, n |-> 0]

\* restoreSession threw
RestoreThrew(t, tk, why) ==
  /\ tasks' = [tasks EXCEPT ![t] = Idle]
  /\ ret' = [op |-> tk.op, sid |-> tk.sid,
             res |-> IF tk.op = "restore" THEN why ELSE "unavailable", h |-> tk.h, n |-> 0]

\* createClient returned: the caller runs to its next await
CreateReturned(t, tk, c) ==
  CASE tk.op = "start" ->
         /\ tasks' = [tasks EXCEPT ![t] = Idle]
         /\ ret' = [op |-> "start", sid |-> tk.sid, res |-> "ok", h |-> c, n |-> 0]
    [] tk.op = "boot" ->
         /\ tasks' = [tasks EXCEPT ![t] = Idle]
         /\ ret' = NoRet
    [] OTHER ->
         /\ tasks' = [tasks EXCEPT ![t] = [tk EXCEPT !.pc = "rs_poll", !.n = 0]]
         /\ ret' = NoRet

\* createClient threw: the caller's catch block runs to its next await
CreateThrew(t, tk) ==
  CASE tk.op = "start" ->
         /\ tasks' = [tasks EXCEPT ![t] = Idle]
         /\ ret' = [op |-> "start", sid |-> tk.sid, res |-> "err", h |-> tk.h, n |-> 0]
    [] tk.op = "boot" ->
         /\ tasks' = [tasks EXCEPT ![t] = [tk EXCEPT !.pc = "boot_failwrite"]]
         /\ ret' = NoRet
    [] OTHER -> RestoreThrew(t, tk, "err")

\* createClient up to its first await (the lookup of the session document)
CreateClientEnter(t, tk) ==
  IF clients[tk.sid] # 0 /\ Info(clients[tk.sid])
  THEN CreateReturned(t, tk, clients[tk.sid])
  ELSE /\ tasks' = [tasks EXCEPT ![t] = [tk EXCEPT !.pc = "cc_find"]]
       /\ ret' = NoRet

\* ---------------------------------------------------------------------
\* createClient
\* ---------------------------------------------------------------------

\* the session lookup completes: new Client, clients.set, handlers
\* registered, client.initialize() started and awaited against the timer
CCFind(t) ==
  LET tk == tasks[t] h == NewHandle IN
  /\ tk.pc = "cc_find"
  /\ FreeHandles # {}
  /\ handles' = [handles EXCEPT ![h] = [sid |-> tk.sid, phase |-> "new", live |-> TRUE, u |-> tk.u]]
  /\ clients' = [clients EXCEPT ![tk.sid] = h]
  /\ tasks' = [tasks EXCEPT ![t] = [tk EXCEPT !.pc = "cc_init", !.h = h]]
  /\ ret' = NoRet /\ notes' = {}
  /\ UNCHANGED <<batchVars, helperVars, store, booted, used, calls, restoreReq>>

\* client.initialize() resolves before the timer: return client
CCInitOk(t) ==
  LET tk == tasks[t] IN
  /\ tk.pc = "cc_init"
  /\ handles[tk.h].live
  /\ CreateReturned(t, tk, tk.h)
  /\ notes' = {}
  /\ UNCHANGED <<batchVars, helperVars, store, clients, handles, booted, used, calls, restoreReq>>

\* client.initialize() rejects: the catch block classifies the error and
\* issues the status write
CCInitFail(t, kind) ==
  LET tk == tasks[t] IN
  /\ tk.pc = "cc_init"
  /\ handles[tk.h].live => handles[tk.h].phase = "new"
  /\ handles' = [handles EXCEPT ![tk.h].live = FALSE]
  /\ tasks' = [tasks EXCEPT ![t] = [tk EXCEPT !.pc = "cc_failwrite", !.err = kind]]
  /\ ret' = NoRet /\ notes' = {}
  /\ UNCHANGED <<batchVars, helperVars, store, clients, booted, used, calls, restoreReq>>

\* the 60s timer rejects first: same catch block, the message is not a
\* network error; nothing stops the client
CCTimeout(t) ==
  LET tk == tasks[t] IN
  /\ tk.pc = "cc_init"
  /\ tasks' = [tasks EXCEPT ![t] = [tk EXCEPT !.pc = "cc_failwrite", !.err = "timeout"]]
  /\ ret' = NoRet /\ notes' = {}
  /\ UNCHANGED <<batchVars, helperVars, store, clients, handles, booted, used, calls, restoreReq>>

\* the status write of the catch block completes: clients.delete, rethrow
\* (the outer catch deletes again and rethrows to the caller)
CCFailWrite(t) ==
  LET tk == tasks[t] IN
  /\ tk.pc = "cc_failwrite"
  /\ store' = UpdateStatus(store, tk.sid,
                 IF tk.err = "net" THEN "network_error" ELSE "failed")
  /\ clients' = [clients EXCEPT ![tk.sid] = 0]
  /\ CreateThrew(t, tk)
  /\ notes' = {}
  /\ UNCHANGED <<batchVars, helperVars, handles, booted, used, calls>>
  /\ ReqNext({})

\* ---------------------------------------------------------------------
\* startNewSession
\* ---------------------------------------------------------------------

\* POST /session/connect: the first deleteMany is issued
StartCall(t, u) ==
  /\ CanCall(t)
  /\ calls' = calls + 1
  /\ FreeSids # {}
  /\ tasks' = [tasks EXCEPT ![t] = [Idle EXCEPT !.op = "start", !.pc = "sn_sweep1", !.u = u]]
  /\ ret' = NoRet /\ notes' = {}
  /\ UNCHANGED <<batchVars, helperVars, store, clients, handles, booted, used, restoreReq>>

\* deleteMany: this user's disconnected/auth_failed documents whose updatedAt
\* is more than 1h before Date.now(); `old` is the set the clock makes so
SweepTerminal(t, old) ==
  LET tk == tasks[t] IN
  /\ tk.pc = "sn_sweep1"
  /\ store' = [s \in Sids |->
                 IF /\ store[s].owner = tk.u
                    /\ store[s].status \in {"disconnected", "auth_failed"}
                    /\ s \in old
                 THEN NoRec ELSE store[s]]
  /\ tasks' = [tasks EXCEPT ![t].pc = "sn_sweep2"]
  /\ ret' = NoRet /\ notes' = {}
  /\ UNCHANGED <<batchVars, helperVars, clients, handles, booted, used, calls>>
  /\ ReqNext({})

\* deleteMany: this user's qr documents older than 10min (the set `old`)
SweepQr(t, old) ==
  LET tk == tasks[t] IN
  /\ tk.pc = "sn_sweep2"
  /\ store' = [s \in Sids |->
                 IF /\ store[s].owner = tk.u
                    /\ store[s].status = "qr"
                    /\ s \in old
                 THEN NoRec ELSE store[s]]
  /\ tasks' = [tasks EXCEPT ![t].pc = "sn_create"]
  /\ ret' = NoRet /\ notes' = {}
  /\ UNCHANGED <<batchVars, helperVars, clients, handles, booted, used, calls>>
  /\ ReqNext({})

\* sessionModel.create of the pending document completes; createClient is
\* entered
StartCreate(t) ==
  LET tk == tasks[t] s == NewSid IN
  /\ tk.pc = "sn_create"
  /\ FreeSids # {}
  /\ store' = [store EXCEPT ![s] = [status |-> "pending", qr |-> FALSE, owner |-> tk.u]]
  /\ used' = used \cup {s}
  /\ CreateClientEnter(t, [tk EXCEPT !.sid = s])
  /\ notes' = {}
  /\ UNCHANGED <<batchVars, helperVars, clients, handles, booted, calls>>
  /\ ReqNext({})

\* ---------------------------------------------------------------------
\* restoreSession and getOrRestoreClient
\* ---------------------------------------------------------------------

\* POST /session/:id/restore
RestoreCall(t, s) ==
  /\ CanCall(t)
  /\ calls' = calls + 1
  /\ IF clients[s] # 0 /\ Info(clients[s])
     THEN /\ tasks' = tasks
          /\ ret' = [op |-> "restore", sid |-> s, res |-> "ok", h |-> clients[s], n |-> 0]
     ELSE /\ tasks' = [tasks EXCEPT ![t] = [Idle EXCEPT !.op = "restore", !.pc = "rs_find", !.sid = s]]
          /\ ret' = NoRet
  /\ notes' = {}
  /\ UNCHANGED <<batchVars, helperVars, store, clients, handles, booted, used>>
  /\ ReqNext(IF ret'.op = "restore" \/ tasks'[t].pc = "rs_find" THEN {s} ELSE {})

\* getOrRestoreClient, called by every sender
GetOrRestoreCall(t, s) ==
  /\ CanCall(t)
  /\ calls' = calls + 1
  /\ IF clients[s] # 0 /\ Info(clients[s])
     THEN tasks' = [tasks EXCEPT ![t] = [Idle EXCEPT !.op = "getOrRestore", !.pc = "gr_find",
                                             !.sid = s, !.h = clients[s]]]
     ELSE tasks' = [tasks EXCEPT ![t] = [Idle EXCEPT !.op = "getOrRestore", !.pc = "rs_find", !.sid = s]]
  /\ ret' = NoRet /\ notes' = {}
  /\ UNCHANGED <<batchVars, helperVars, store, clients, handles, booted, used>>
  /\ ReqNext(IF ret'.op = "restore" \/ tasks'[t].pc = "rs_find" THEN {s} ELSE {})

\* the display-name lookup completes: return the client read before it
GRFind(t) ==
  LET tk == tasks[t] IN
  /\ tk.pc = "gr_find"
  /\ tasks' = [tasks EXCEPT ![t] = Idle]
  /\ ret' = [op |-> "getOrRestore", sid |-> tk.sid, res |-> "ok", h |-> tk.h, n |-> 0]
  /\ notes' = {}
  /\ UNCHANGED <<batchVars, helperVars, store, clients, handles, booted, used, calls, restoreReq>>

\* restoreSession without the test of the lookup's result
RSFind_NoNullTest(t) ==
  LET tk == tasks[t] IN
  /\ tk.pc = "rs_find"
  /\ CreateClientEnter(t, [tk EXCEPT !.u = store[tk.sid].owner])
  /\ notes' = {}
  /\ UNCHANGED <<batchVars, helperVars, store, clients, handles, booted, used, calls, restoreReq>>

\* restoreSession: the session lookup completes
RSFind(t) ==
  LET tk == tasks[t] IN
  /\ tk.pc = "rs_find"
  /\ IF ~Exists(tk.sid)
     THEN RestoreThrew(t, tk, "notfound")
     ELSE CreateClientEnter(t, [tk EXCEPT !.u = store[tk.sid].owner])
  /\ notes' = {}
  /\ UNCHANGED <<batchVars, helperVars, store, clients, handles, booted, used, calls, restoreReq>>

\* the polling loop without attempts++
RSPoll_NoCount(t) ==
  LET tk == tasks[t] c == clients[tk.sid] IN
  /\ tk.pc = "rs_poll"
  /\ IF c # 0 /\ Info(c)
     THEN RestoreReturned(t, tk, c)
     ELSE /\ tasks' = tasks
          /\ ret' = NoRet
  /\ notes' = {}
  /\ UNCHANGED <<batchVars, helperVars, store, clients, handles, booted, used, calls, restoreReq>>

\* restoreSession: one delay(1000) of the polling loop elapses
RSPoll(t) ==
  LET tk == tasks[t] c == clients[tk.sid] IN
  /\ tk.pc = "rs_poll"
  /\ IF c # 0 /\ Info(c)
     THEN RestoreReturned(t, tk, c)
     ELSE IF tk.n + 1 < maxAttempts
          THEN /\ tasks' = [tasks EXCEPT ![t].n = tk.n + 1]
               /\ ret' = NoRet
          ELSE IF c # 0
               THEN RestoreReturned(t, tk, c)
               ELSE RestoreThrew(t, tk, "err")
  /\ notes' = {}
  /\ UNCHANGED <<batchVars, helperVars, store, clients, handles, booted, used, calls, restoreReq>>

\* ---------------------------------------------------------------------
\* disconnectSession and deleteSession
\* ---------------------------------------------------------------------

\* POST /session/:id/disconnect, up to the first await
DisconnectCall(t, s) ==
  /\ CanCall(t)
  /\ calls' = calls + 1
  /\ tasks' = [tasks EXCEPT ![t] =
       [Idle EXCEPT !.op = "disconnect", !.sid = s, !.h = clients[s],
                    !.pc = IF clients[s] # 0 THEN "ds_destroy" ELSE "ds_write"]]
  /\ ret' = NoRet /\ notes' = {}
  /\ UNCHANGED <<batchVars, helperVars, store, clients, handles, booted, used, restoreReq>>

\* client.destroy() resolves (then clients.delete) or throws (logged only)
DSDestroy(t, ok) ==
  LET tk == tasks[t] IN
  /\ tk.pc = "ds_destroy"
  /\ IF ok
     THEN /\ handles' = [handles EXCEPT ![tk.h].live = FALSE]
          /\ clients' = [clients EXCEPT ![tk.sid] = 0]
     ELSE UNCHANGED <<handles, clients>>
  /\ tasks' = [tasks EXCEPT ![t].pc = "ds_write"]
  /\ ret' = NoRet /\ notes' = {}
  /\ UNCHANGED <<batchVars, helperVars, store, booted, used, calls, restoreReq>>

\* the status write completes and disconnectSession returns
DSWrite(t) ==
  LET tk == tasks[t] IN
  /\ tk.pc = "ds_write"
  /\ store' = UpdateStatus(store, tk.sid, "disconnected")
  /\ tasks' = [tasks EXCEPT ![t] = Idle]
  /\ ret' = [op |-> "disconnect", sid |-> tk.sid, res |-> "ok", h |-> tk.h, n |-> 0]
  /\ notes' = {}
  /\ UNCHANGED <<batchVars, helperVars, clients, handles, booted, used, calls>>
  /\ ReqNext({})

\* DELETE /session/:id, up to the first await
DeleteCall(t, s) ==
  /\ CanCall(t)
  /\ calls' = calls + 1
  /\ tasks' = [tasks EXCEPT ![t] =
       [Idle EXCEPT !.op = "delete", !.sid = s, !.h = clients[s],
                    !.pc = IF clients[s] # 0 THEN "dl_destroy" ELSE "dl_delete"]]
  /\ ret' = NoRet /\ notes' = {}
  /\ UNCHANGED <<batchVars, helperVars, store, clients, handles, booted, used, restoreReq>>

DLDestroy(t, ok) ==
  LET tk == tasks[t] IN
  /\ tk.pc = "dl_destroy"
  /\ IF ok
     THEN /\ handles' = [handles EXCEPT ![tk.h].live = FALSE]
          /\ clients' = [clients EXCEPT ![tk.sid] = 0]
     ELSE UNCHANGED <<handles, clients>>
  /\ tasks' = [tasks EXCEPT ![t].pc = "dl_delete"]
  /\ ret' = NoRet /\ notes' = {}
  /\ UNCHANGED <<batchVars, helperVars, store, booted, used, calls, restoreReq>>

\* findOneAndDelete completes; the auth folder is removed; the controller
\* answers 404 when the result is null
DLDelete(t) ==
  LET tk == tasks[t] IN
  /\ tk.pc = "dl_delete"
  /\ store' = [store EXCEPT ![tk.sid] = NoRec]
  /\ tasks' = [tasks EXCEPT ![t] = Idle]
  /\ ret' = [op |-> "delete", sid |-> tk.sid,
             res |-> IF Exists(tk.sid) THEN "found" ELSE "notfound", h |-> tk.h, n |-> 0]
  /\ notes' = {}
  /\ UNCHANGED <<batchVars, helperVars, clients, handles, booted, used, calls>>
  /\ ReqNext({})

\* ---------------------------------------------------------------------
\* clearAllSessions
\* ---------------------------------------------------------------------

Pooled == {s \in Sids : clients[s] # 0}

\* the for-of loop over clients.entries() takes its next entry (a Map
\* iterator also visits the entries set while the loop runs, so the loop
\* ends when the Map is empty) and awaits client.destroy(); after the last
\* entry deleteMany({}) is awaited
ClearLoop(t, tk, pool) ==
  IF pool = {}
  THEN tasks' = [tasks EXCEPT ![t] = [tk EXCEPT !.pc = "ca_deletemany", !.sid = 0, !.h = 0]]
  ELSE \E s \in pool :
         tasks' = [tasks EXCEPT ![t] = [tk EXCEPT !.pc = "ca_destroy", !.sid = s, !.h = clients[s]]]

\* POST /session/clear, up to the first await
ClearAllCall(t) ==
  /\ CanCall(t)
  /\ calls' = calls + 1
  /\ ClearLoop(t, [Idle EXCEPT !.op = "clearAll"], Pooled)
  /\ ret' = NoRet /\ notes' = {}
  /\ UNCHANGED <<batchVars, helperVars, store, clients, handles, booted, used, restoreReq>>

\* client.destroy() resolves or throws (ignored); clients.delete(id)
\* either way; next entry
CADestroy(t, ok) ==
  LET tk == tasks[t] IN
  /\ tk.pc = "ca_destroy"
  /\ handles' = IF ok THEN [handles EXCEPT ![tk.h].live = FALSE] ELSE handles
  /\ clients' = [clients EXCEPT ![tk.sid] = 0]
  /\ ClearLoop(t, tk, Pooled \ {tk.sid})
  /\ ret' = NoRet /\ notes' = {}
  /\ UNCHANGED <<batchVars, helperVars, store, booted, used, calls, restoreReq>>

\* deleteMany({}) completes; the dynamic imports are awaited
CADeleteMany(t) ==
  LET tk == tasks[t] IN
  /\ tk.pc = "ca_deletemany"
  /\ store' = [s \in Sids |-> NoRec]
  /\ tasks' = [tasks EXCEPT ![t] = [tk EXCEPT !.pc = "ca_import",
                                              !.n = Cardinality({s \in Sids : Exists(s)})]]
  /\ ret' = NoRet /\ notes' = {}
  /\ UNCHANGED <<batchVars, helperVars, clients, handles, booted, used, calls>>
  /\ ReqNext({})

\* the imports resolve; the auth folder is removed; return {cleared}
CAReturn(t) ==
  LET tk == tasks[t] IN
  /\ tk.pc = "ca_import"
  /\ tasks' = [tasks EXCEPT ![t] = Idle]
  /\ ret' = [op |-> "clearAll", sid |-> 0, res |-> "ok", h |-> 0, n |-> tk.n]
  /\ notes' = {}
  /\ UNCHANGED <<batchVars, helperVars, store, clients, handles, booted, used, calls, restoreReq>>

\* ---------------------------------------------------------------------
\* restoreSessions (startup)
\* ---------------------------------------------------------------------

\* restoreSessions selecting the connected documents only
BootFind_ConnectedOnly ==
  /\ ~booted
  /\ booted' = TRUE
  /\ tasks' = [t \in Tasks |->
       IF \E s \in Sids : /\ t = BootTask(s)
                          /\ store[s].status = "connected"
                          /\ clients[s] = 0
       THEN LET s == CHOOSE r \in Sids : t = BootTask(r) IN
            [Idle EXCEPT !.op = "boot", !.pc = "boot_delay", !.sid = s, !.u = store[s].owner]
       ELSE tasks[t]]
  /\ ret' = NoRet /\ notes' = {}
  /\ UNCHANGED <<batchVars, helperVars, store, clients, handles, used, calls, restoreReq>>

\* the find of connected/authenticated documents completes; one async
\* task per document, each suspended in its delay unless already pooled
BootFind ==
  /\ ~booted
  /\ booted' = TRUE
  /\ tasks' = [t \in Tasks |->
       IF \E s \in Sids : /\ t = BootTask(s)
                          /\ store[s].status \in {"connected", "authenticated"}
                          /\ clients[s] = 0
       THEN LET s == CHOOSE r \in Sids : t = BootTask(r) IN
            [Idle EXCEPT !.op = "boot", !.pc = "boot_delay", !.sid = s, !.u = store[s].owner]
       ELSE tasks[t]]
  /\ ret' = NoRet /\ notes' = {}
  /\ UNCHANGED <<batchVars, helperVars, store, clients, handles, used, calls, restoreReq>>

\* delay(index * 1000) elapses; createClient is entered
BootDelay(t) ==
  LET tk == tasks[t] IN
  /\ tk.pc = "boot_delay"
  /\ CreateClientEnter(t, tk)
  /\ notes' = {}
  /\ UNCHANGED <<batchVars, helperVars, store, clients, handles, booted, used, calls, restoreReq>>

\* createClient threw: the document is marked disconnected
BootFailWrite(t) ==
  LET tk == tasks[t] IN
  /\ tk.pc = "boot_failwrite"
  /\ store' = UpdateStatus(store, tk.sid, "disconnected")
  /\ tasks' = [tasks EXCEPT ![t] = Idle]
  /\ ret' = NoRet /\ notes' = {}
  /\ UNCHANGED <<batchVars, helperVars, clients, handles, booted, used, calls>>
  /\ ReqNext({})

\* ---------------------------------------------------------------------
\* the Client (external) and the handlers createClient registers on it.
\* The Client emits its lifecycle events in protocol order while it runs;
\* an action is the emission together with the handler it invokes.
\* ---------------------------------------------------------------------

\* the Client moves to phase `to` and emits; it stops running once it has
\* reported disconnected or auth_failure
Emit(h, from, to) ==
  /\ handles[h].live
  /\ handles[h].phase \in from
  /\ handles' = [handles EXCEPT ![h].phase = to,
                                ![h].live = to \notin {"off", "authfail"}]

\* client.on("qr")
OnQr(h) ==
  LET s == handles[h].sid IN
  /\ Emit(h, {"new", "qr"}, "qr")
  /\ store' = [UpsertStatus(store, s, "qr") EXCEPT ![s].qr = TRUE, ![s].owner = handles[h].u]
  /\ ret' = NoRet /\ notes' = {}
  /\ UNCHANGED <<batchVars, helperVars, clients, tasks, booted, used, calls>>
  /\ ReqNext({})

\* client.on("authenticated")
OnAuthenticated(h) ==
  LET s == handles[h].sid IN
  /\ Emit(h, {"new", "qr"}, "auth")
  /\ store' = UpsertStatus(store, s, "authenticated")
  /\ ret' = NoRet /\ notes' = {}
  /\ UNCHANGED <<batchVars, helperVars, clients, tasks, booted, used, calls>>
  /\ ReqNext({})

\* client.on("ready")
OnReady(h) ==
  LET s == handles[h].sid IN
  /\ Emit(h, {"auth"}, "ready")
  /\ store' = [UpsertStatus(store, s, "connected") EXCEPT ![s].qr = FALSE]
  /\ notes' = {<<s, "connected">>}
  /\ ret' = NoRet
  /\ UNCHANGED <<batchVars, helperVars, clients, tasks, booted, used, calls>>
  /\ ReqNext({})

\* client.on("auth_failure"); ok: the awaited status update resolves,
\* otherwise it rejects and the rest of the handler does not run
OnAuthFailure(h, ok) ==
  LET s == handles[h].sid IN
  /\ Emit(h, {"new", "qr"}, "authfail")
  /\ IF ok
     THEN /\ store' = UpdateStatus(store, s, "auth_failed")
          /\ clients' = [clients EXCEPT ![s] = 0]
          /\ notes' = {<<s, "auth_failed">>}
     ELSE /\ UNCHANGED <<store, clients>>
          /\ notes' = {}
  /\ ret' = NoRet
  /\ UNCHANGED <<batchVars, helperVars, tasks, booted, used, calls>>
  /\ ReqNext({})

\* client.on("disconnected"); ok as above
OnDisconnected(h, ok) ==
  LET s == handles[h].sid IN
  /\ Emit(h, {"ready"}, "off")
  /\ IF ok
     THEN /\ store' = UpdateStatus(store, s, "disconnected")
          /\ clients' = [clients EXCEPT ![s] = 0]
          /\ notes' = {<<s, "disconnected">>}
     ELSE /\ UNCHANGED <<store, clients>>
          /\ notes' = {}
  /\ ret' = NoRet
  /\ UNCHANGED <<batchVars, helperVars, tasks, booted, used, calls>>
  /\ ReqNext({})

\* ---------------------------------------------------------------------
\* the batch senders of the message controller: sendBatchMessage ("many"),
\* sendBatchFromExcel ("excel"), sendBatchToGroupMembers ("members") and
\* sendBatchToMultipleGroups ("groups").  Recipients, sessions and content
\* items are named by their index in the request; delays are in seconds.
\* ---------------------------------------------------------------------

DefaultMin == 15     \* delayMin = 15000 (ms)
DefaultMax == 20     \* delayMax = 20000 (ms)

Modes == {"many", "excel", "members", "groups"}
SingleSession == {"members", "groups"}

\* a delay bound of the request body: {} when the caller left it out
DelayArgs == {{}} \cup {{v} : v \in 0 .. MaxDelay}
Value(x) == CHOOSE v \in x : TRUE

Requests ==
  {r \in [mode : Modes, nto : 1 .. MaxTo, nsess : 1 .. MaxSess, items : 1 .. MaxItems,
          dmin : DelayArgs, dmax : DelayArgs] :
     /\ r.mode \in SingleSession => r.nsess = 1
     /\ r.mode = "excel" => r.items = 1}

\* `delayMin = 15000` in the destructuring: the default replaces undefined only
OrDefault(x, d) == IF x = {} THEN d ELSE Value(x)

\* `parseInt(delayMin) || 15000`: the default also replaces 0 and NaN
ParseOrDefault(x, d) == IF x = {} \/ Value(x) = 0 THEN d ELSE Value(x)

DelayMin(r) ==
  IF r.mode \in SingleSession THEN ParseOrDefault(r.dmin, DefaultMin)
  ELSE OrDefault(r.dmin, DefaultMin)

DelayMax(r) ==
  IF r.mode \in SingleSession THEN ParseOrDefault(r.dmax, DefaultMax)
  ELSE OrDefault(r.dmax, DefaultMax)

\* Math.floor(Math.random() * (max - min + 1)) + min, Math.random() in [0, 1)
randomDelay(min, max) ==
  LET n == max - min + 1 IN
  IF n > 0 THEN {min + k : k \in 0 .. (n - 1)}
  ELSE {min + k : k \in n .. 0}

\* the ledger entries pushed to `results`
SessionEntry(j, why) ==
  [sess |-> j, to |-> 0, item |-> 0, status |-> "none", err |-> why]

SendEntry(j, i, k, status, why) ==
  [sess |-> j, to |-> i, item |-> k, status |-> status, err |-> why]

\* the loops nested the other way round
PairBefore_SessionsOuter(p, q) ==
  \/ p[2] < q[2]
  \/ p[2] = q[2] /\ p[1] <= q[1]

\* nested loops: `for (recipient of to) for (sessionId of sessionIds)`
PairBefore(p, q) ==
  \/ p[1] < q[1]
  \/ p[1] = q[1] /\ p[2] <= q[2]

\* the pairs the loops have not reached yet; a session without a client is
\* skipped by `continue`
PairsAfter(r, cm, i, j) ==
  {p \in (1 .. r.nto) \X cm : p # <<i, j>> /\ PairBefore(<<i, j>>, p)}

\* the loops go on after pair (i, j): the next pair begins (up to its first
\* await) or the loops end and the response is sent
Proceed(i, j, cm, res, snt) ==
  LET rest == PairsAfter(breq, cm, i, j) IN
  /\ results' = res
  /\ sent' = snt
  /\ wait' = {}
  /\ IF rest = {}
     THEN /\ bpc' = "done"
          /\ resp' = Response(breq.mode, res)
          /\ UNCHANGED <<bi, bj, bk, order>>
     ELSE LET p == CHOOSE q \in rest : \A o \in rest : PairBefore(q, o) IN
          /\ bi' = p[1] /\ bj' = p[2] /\ bk' = 1
          /\ order' = Append(order, p)
          /\ bpc' = IF breq.mode \in SingleSession THEN "send" ELSE "resolve"
          /\ resp' = resp

\* the request passes validation; the client of the first session is awaited
BatchCall(r) ==
  /\ bpc = "idle"
  /\ breq' = r
  /\ bpc' = "prepare"
  /\ bj' = 1
  /\ UNCHANGED <<bi, bk, clientMap, results, sent, wait, order, resp>>
  /\ UNCHANGED <<managerVars, helperVars, unpooled>>

\* getOrRestoreClient of session bj returns a ready client, one that is not
\* ready, or throws.  With a single session the member lookups follow: a
\* throw there is caught like a throw of getOrRestoreClient, an early
\* return like a client that is not ready
BPrepare(out) ==
  /\ bpc = "prepare"
  /\ IF breq.mode \in SingleSession
     THEN IF out = "ready"
          THEN /\ clientMap' = {1}
               /\ Proceed(0, 0, {1}, results, sent)
          ELSE /\ bpc' = "done"
               /\ resp' = ErrorResponse(IF out = "notready" THEN 400 ELSE 500)
               /\ UNCHANGED <<bi, bj, bk, clientMap, results, sent, wait, order>>
     ELSE LET cm == IF out = "ready" THEN clientMap \cup {bj} ELSE clientMap
              res == IF out = "ready" THEN results
                     ELSE Append(results, SessionEntry(bj, out))
          IN /\ clientMap' = cm
             /\ IF bj < breq.nsess
                THEN /\ bj' = bj + 1
                     /\ results' = res
                     /\ UNCHANGED <<bpc, bi, bk, sent, wait, order, resp>>
                ELSE Proceed(0, 0, cm, res, sent)
  /\ UNCHANGED breq
  /\ UNCHANGED <<managerVars, helperVars, unpooled>>

\* a recipient that does not resolve ends the request with an error
BResolve_AbortOnNotFound(found) ==
  /\ bpc = "resolve"
  /\ IF found
     THEN /\ bpc' = "send"
          /\ UNCHANGED <<bi, bj, bk, results, sent, wait, order, resp>>
     ELSE /\ bpc' = "done"
          /\ resp' = ErrorResponse(400)
          /\ UNCHANGED <<bi, bj, bk, results, sent, wait, order>>
  /\ UNCHANGED <<breq, clientMap>>
  /\ UNCHANGED <<managerVars, helperVars, unpooled>>

\* resolveRecipient returns (it catches its own errors)
BResolve(found) ==
  /\ bpc = "resolve"
  /\ IF found
     THEN /\ bpc' = "send"
          /\ UNCHANGED <<bi, bj, bk, results, sent, wait, order, resp>>
     ELSE Proceed(bi, bj, clientMap,
                  Append(results, SendEntry(bj, bi, 0, "failed", "notfound")), sent)
  /\ UNCHANGED <<breq, clientMap>>
  /\ UNCHANGED <<managerVars, helperVars, unpooled>>

\* the delay is slept after the last item of the pair: always ("many"),
\* while messageCount is below contacts * sessions ("excel"), unless the
\* recipient is the last one (single session)
DelayDue(r, i, snt) ==
  CASE r.mode = "many" -> TRUE
    [] r.mode = "excel" -> snt < r.nto * r.nsess
    [] OTHER -> i < r.nto

\* a send error that reaches the outer catch of the controller
BSend_AbortOnError(ok) ==
  /\ bpc = "send"
  /\ IF ok
     THEN LET res == Append(results, SendEntry(bj, bi, bk, "sent", "none")) IN
          IF bk < breq.items
          THEN /\ bk' = bk + 1
               /\ results' = res
               /\ sent' = sent + 1
               /\ UNCHANGED <<bpc, bi, bj, wait, order, resp>>
          ELSE IF DelayDue(breq, bi, sent + 1)
               THEN /\ \E d \in randomDelay(DelayMin(breq), DelayMax(breq)) : wait' = {d}
                    /\ bpc' = "delay"
                    /\ results' = res
                    /\ sent' = sent + 1
                    /\ UNCHANGED <<bi, bj, bk, order, resp>>
               ELSE Proceed(bi, bj, clientMap, res, sent + 1)
     ELSE /\ bpc' = "done"
          /\ resp' = ErrorResponse(500)
          /\ UNCHANGED <<bi, bj, bk, results, sent, wait, order>>
  /\ UNCHANGED <<breq, clientMap>>
  /\ UNCHANGED <<managerVars, helperVars, unpooled>>

\* client.sendMessage of item bk resolves or throws
BSend(ok) ==
  /\ bpc = "send"
  /\ IF ok
     THEN LET res == Append(results, SendEntry(bj, bi, bk, "sent", "none")) IN
          IF bk < breq.items
          THEN /\ bk' = bk + 1
               /\ results' = res
               /\ sent' = sent + 1
               /\ UNCHANGED <<bpc, bi, bj, wait, order, resp>>
          ELSE IF DelayDue(breq, bi, sent + 1)
               THEN /\ \E d \in randomDelay(DelayMin(breq), DelayMax(breq)) : wait' = {d}
                    /\ bpc' = "delay"
                    /\ results' = res
                    /\ sent' = sent + 1
                    /\ UNCHANGED <<bi, bj, bk, order, resp>>
               ELSE Proceed(bi, bj, clientMap, res, sent + 1)
     ELSE Proceed(bi, bj, clientMap,
                  Append(results, SendEntry(bj, bi, 0, "failed", "send")), sent)
  /\ UNCHANGED <<breq, clientMap>>
  /\ UNCHANGED <<managerVars, helperVars, unpooled>>

\* `clients.delete(sessionId)` for a session whose client the request holds in
\* clientMap: the disconnected or auth_failure handler of the client,
\* disconnectSession, deleteSession or clearAllSessions runs while the
\* request is served
ClientsDelete(j) ==
  /\ bpc \in {"prepare", "resolve", "send", "delay"}
  /\ j \in clientMap \ unpooled
  /\ unpooled' = unpooled \cup {j}
  /\ UNCHANGED <<breq, bpc, bi, bj, bk, clientMap, results, sent, wait, order, resp>>
  /\ UNCHANGED <<managerVars, helperVars>>

\* the timer of delay(wait) fires
BDelay ==
  /\ bpc = "delay"
  /\ Proceed(bi, bj, clientMap, results, sent)
  /\ UNCHANGED <<breq, clientMap>>
  /\ UNCHANGED <<managerVars, helperVars, unpooled>>

\* ---------------------------------------------------------------------
\* resolveRecipient of the message controller ("message") and of the
\* webhook controller ("media").  A string is a sequence of characters; a
\* chat of the listing is seen by isGroup, name (<<>> when it has none)
\* and its serialized id.
\* ---------------------------------------------------------------------

MinPhoneDigits == 10   \* cleanNumber.length >= 10

Resolvers == {"message", "media"}

Alphabet == {"1", "a", "A", "-", "+", " "}
GroupSuffix == <<"@", "g", ".", "u", "s">>
PersonSuffix == <<"@", "c", ".", "u", "s">>

\* the tokens a caller supplies: a short head, then nothing, digits that
\* lack one of the number of digits of a phone number, or a chat suffix
Heads == UNION {[1 .. n -> Alphabet] : n \in 0 .. MaxHead}
Tails == {<<>>, [k \in 1 .. (MinPhoneDigits - 1) |-> "1"], GroupSuffix, PersonSuffix}
Tokens == {h \o t : h \in Heads, t \in Tails}

\* the chat listings client.getChats() resolves with, and its rejection
ChatNames == {<<>>, <<"a", "b">>, <<"A", "b">>, <<"b">>}
ChatId(i) == <<"chat", ToString(i)>>
Listings ==
  UNION {{[i \in 1 .. n |-> [isGroup |-> f[i][1], name |-> f[i][2], id |-> ChatId(i)]] :
            f \in [1 .. n -> BOOLEAN \X ChatNames]} : n \in 0 .. MaxChats}
GetChats == {NoChats} \cup {[ok |-> TRUE, list |-> l] : l \in Listings}

\* String.prototype.includes
Includes(s, sub) ==
  \E i \in 0 .. (Len(s) - Len(sub)) : SubSeq(s, i + 1, i + Len(sub)) = sub

\* String.prototype.toLowerCase
LowerChar(c) == IF c = "A" THEN "a" ELSE c
ToLowerCase(s) == [i \in 1 .. Len(s) |-> LowerChar(s[i])]

\* replace(/\D/g, '') and replace(/[\s\-\+]/g, '')
IsDigit(c) == c \in {"0", "1", "2", "3", "4", "5", "6", "7", "8", "9"}
NotSeparator(c) == c \notin {" ", "-", "+"}
CleanNumber(s) == SelectSeq(s, IsDigit)
StripSeparators(s) == SelectSeq(s, NotSeparator)

HasSuffix(s) == Includes(s, GroupSuffix) \/ Includes(s, PersonSuffix)
IsPhone(s) ==
  /\ Len(CleanNumber(s)) >= MinPhoneDigits
  /\ CleanNumber(s) = StripSeparators(s)

\* the tests made before the chat listing is asked for, in the order of the
\* code; {} when none of them returns
Direct(s) ==
  IF HasSuffix(s) THEN {s}
  ELSE IF Includes(s, <<"-">>) THEN {s \o GroupSuffix}
  ELSE IF IsPhone(s) THEN {CleanNumber(s) \o PersonSuffix}
  ELSE {}

\* chats.find(...): the first chat of the listing that passes the test
ExactMatches(l, s) ==
  {i \in 1 .. Len(l) : l[i].isGroup /\ l[i].name # <<>>
                       /\ ToLowerCase(l[i].name) = ToLowerCase(s)}
PartialMatches(l, s) ==
  {i \in 1 .. Len(l) : l[i].isGroup /\ l[i].name # <<>>
                       /\ Includes(ToLowerCase(l[i].name), ToLowerCase(s))}
First(S) == CHOOSE i \in S : \A k \in S : i <= k

\* the search by group name; a rejected getChats() is caught
Lookup(fn, s, c) ==
  IF ~c.ok THEN [id |-> {}, partialMatch |-> FALSE, error |-> (fn = "message")]
  ELSE IF ExactMatches(c.list, s) # {}
       THEN [id |-> {c.list[First(ExactMatches(c.list, s))].id},
             partialMatch |-> FALSE, error |-> FALSE]
       ELSE IF fn = "message" /\ PartialMatches(c.list, s) # {}
            THEN [id |-> {c.list[First(PartialMatches(c.list, s))].id},
                  partialMatch |-> TRUE, error |-> FALSE]
            ELSE NoResolved

\* what a resolver returns for a token and an outcome of getChats()
Resolve(fn, s, c) ==
  IF Direct(s) # {} THEN [id |-> Direct(s), partialMatch |-> FALSE, error |-> FALSE]
  ELSE Lookup(fn, s, c)

\* resolveRecipient is called: it returns at once or asks for the listing
ResolveCall(fn, s) ==
  /\ resolver.pc = "idle"
  /\ resolver' =
       IF Direct(s) # {}
       THEN [pc |-> "returned", fn |-> fn, recipient |-> s, chats |-> NoChats,
             asked |-> FALSE,
             resolved |-> [id |-> Direct(s), partialMatch |-> FALSE, error |-> FALSE]]
       ELSE [pc |-> "getChats", fn |-> fn, recipient |-> s, chats |-> NoChats,
             asked |-> TRUE, resolved |-> NoResolved]
  /\ UNCHANGED <<managerVars, batchVars, collect, webhook, updatedAt>>

\* without the try/catch around the search
ResolveChats_NoCatch(c) ==
  /\ resolver.pc = "getChats"
  /\ resolver' = IF c.ok
                 THEN [resolver EXCEPT !.pc = "returned", !.chats = c,
                         !.resolved = Lookup(resolver.fn, resolver.recipient, c)]
                 ELSE [resolver EXCEPT !.pc = "threw", !.chats = c]
  /\ UNCHANGED <<managerVars, batchVars, collect, webhook, updatedAt>>

\* client.getChats() settles
ResolveChats(c) ==
  /\ resolver.pc = "getChats"
  /\ resolver' = [resolver EXCEPT !.pc = "returned", !.chats = c,
                                  !.resolved = Lookup(resolver.fn, resolver.recipient, c)]
  /\ UNCHANGED <<managerVars, batchVars, collect, webhook, updatedAt>>

\* ---------------------------------------------------------------------
\* sendBatchToMultipleGroups: the members of the selected groups are
\* collected into allContacts before anything is sent.  A selected group is
\* seen by the participants its chat lists, a participant by its phone
\* number (p.id.user), a group by its position in groupIds.
\* ---------------------------------------------------------------------

Phones == 1 .. MaxPhones
ParticipantLists == UNION {[1 .. n -> Phones] : n \in 0 .. MaxMembers}

\* the loop over groupIds goes on with the next group, or ends
NextGroup(c) ==
  IF c.g < c.n
  THEN [c EXCEPT !.pc = "group", !.g = c.g + 1, !.p = 0, !.participants = <<>>]
  ELSE [c EXCEPT !.pc = "done"]

\* the participants after position c.p whose phone is not in uniquePhones
Fresh(c) ==
  {k \in (c.p + 1) .. Len(c.participants) : c.participants[k] \notin c.uniquePhones}

\* every participant is looked up, whether its phone is in uniquePhones or not
ScanParticipants_NoSet(c) ==
  IF c.p + 1 > Len(c.participants)
  THEN NextGroup(c)
  ELSE [c EXCEPT !.pc = "contact", !.p = c.p + 1,
                 !.uniquePhones = c.uniquePhones \cup {c.participants[c.p + 1]},
                 !.seen = c.seen \cup {<<c.g, c.participants[c.p + 1]>>}]

\* `for (const p of participants)`: phones already in uniquePhones are
\* skipped; the first other one is added and its contact is awaited
ScanParticipants(c) ==
  IF Fresh(c) = {}
  THEN NextGroup([c EXCEPT !.seen = c.seen \cup
                    {<<c.g, c.participants[k]>> : k \in (c.p + 1) .. Len(c.participants)}])
  ELSE LET k == First(Fresh(c)) IN
       [c EXCEPT !.pc = "contact", !.p = k,
                 !.uniquePhones = c.uniquePhones \cup {c.participants[k]},
                 !.seen = c.seen \cup {<<c.g, c.participants[m]>> : m \in (c.p + 1) .. k}]

\* the session is ready: the loop over the n selected groups begins
CollectCall(n) ==
  /\ collect.pc = "idle"
  /\ collect' = [pc |-> "group", n |-> n, g |-> 1, p |-> 0, participants |-> <<>>,
                 uniquePhones |-> {}, allContacts |-> <<>>, seen |-> {}]
  /\ UNCHANGED <<managerVars, batchVars, resolver, webhook, updatedAt>>

\* the chat of group g is fetched: it is a group and lists its participants
\* ("ok"), it is not found or not a group (`continue`), or a lookup throws
\* (caught per group)
CollectGroup(out, list) ==
  /\ collect.pc = "group"
  /\ out # "ok" => list = <<>>
  /\ collect' = IF out = "ok"
                THEN ScanParticipants([collect EXCEPT !.participants = list])
                ELSE NextGroup(collect)
  /\ UNCHANGED <<managerVars, batchVars, resolver, webhook, updatedAt>>

\* client.getContactById settles: the contact is pushed with its source
\* group, or the throw ends the processing of this group
CollectContact(ok) ==
  /\ collect.pc = "contact"
  /\ collect' =
       IF ok
       THEN ScanParticipants(
              [collect EXCEPT !.allContacts =
                 Append(collect.allContacts,
                        [phone |-> collect.participants[collect.p],
                         fromGroup |-> collect.g])])
       ELSE NextGroup(collect)
  /\ UNCHANGED <<managerVars, batchVars, resolver, webhook, updatedAt>>

\* ---------------------------------------------------------------------
\* services/webhookManager: the object webhookUrls (seeded from the
\* environment), the Map registeredWebhooks, and sendWebhook, which every
\* notify* function awaits.  A URL is a number, 0 stands for none.  `last`
\* is the URL of the latest registration of an event type that has not been
\* unregistered since, `unregistered` the event types unregistered and not
\* registered again.
\* ---------------------------------------------------------------------

EventTypes == {"message", "session"}
Urls == 1 .. MaxUrls

\* `registeredWebhooks.get(eventType)`, then the fallback to webhookUrls
UrlFor(w, e) ==
  IF w.registeredWebhooks[e] # 0 THEN w.registeredWebhooks[e] ELSE w.webhookUrls[e]

\* getRegisteredWebhooks(): the event types of the entries of the Map
getRegisteredWebhooks(w) == {e \in EventTypes : w.registeredWebhooks[e] # 0}

\* a registration does not replace the URL an event type already has
registerWebhook_KeepFirst(e, u) ==
  /\ webhook' = [webhook EXCEPT
                   !.registeredWebhooks[e] =
                      IF webhook.registeredWebhooks[e] # 0
                      THEN webhook.registeredWebhooks[e] ELSE u,
                   !.last[e] = u,
                   !.unregistered = webhook.unregistered \ {e}]
  /\ UNCHANGED <<managerVars, batchVars, resolver, collect, updatedAt>>

\* registerWebhook(eventType, url), both given
registerWebhook(e, u) ==
  /\ webhook' = [webhook EXCEPT !.registeredWebhooks[e] = u, !.last[e] = u,
                                !.unregistered = webhook.unregistered \ {e}]
  /\ UNCHANGED <<managerVars, batchVars, resolver, collect, updatedAt>>

\* unregisterWebhook(eventType)
unregisterWebhook(e) ==
  /\ webhook' = [webhook EXCEPT !.registeredWebhooks[e] = 0, !.last[e] = 0,
                                !.unregistered = webhook.unregistered \cup {e}]
  /\ UNCHANGED <<managerVars, batchVars, resolver, collect, updatedAt>>

\* an event type without URL is posted to a default endpoint
sendWebhook_DefaultUrl(e) ==
  /\ webhook.pc = "idle"
  /\ webhook' = [webhook EXCEPT !.pc = "post", !.eventType = e,
                                !.url = IF UrlFor(webhook, e) = 0 THEN 1
                                        ELSE UrlFor(webhook, e),
                                !.posts = 1, !.delivered = FALSE, !.threw = FALSE]
  /\ UNCHANGED <<managerVars, batchVars, resolver, collect, updatedAt>>

\* sendWebhook(eventType, payload) is called by a notify* function: it
\* returns at once when there is no URL, else axios.post is awaited
sendWebhook(e) ==
  /\ webhook.pc = "idle"
  /\ webhook' = IF UrlFor(webhook, e) = 0
                THEN [webhook EXCEPT !.pc = "returned", !.eventType = e, !.url = 0,
                                     !.posts = 0, !.delivered = FALSE, !.threw = FALSE]
                ELSE [webhook EXCEPT !.pc = "post", !.eventType = e,
                                     !.url = UrlFor(webhook, e),
                                     !.posts = 1, !.delivered = FALSE, !.threw = FALSE]
  /\ UNCHANGED <<managerVars, batchVars, resolver, collect, updatedAt>>

\* a failed POST is thrown to the caller of the notify* function
PostSettled_Rethrow(ok) ==
  /\ webhook.pc = "post"
  /\ webhook' = [webhook EXCEPT !.pc = "returned", !.delivered = ok, !.threw = ~ok]
  /\ UNCHANGED <<managerVars, batchVars, resolver, collect, updatedAt>>

\* axios.post resolves, or rejects (no answer within 5s, error status,
\* unreachable host): the rejection is caught and logged
PostSettled(ok) ==
  /\ webhook.pc = "post"
  /\ webhook' = [webhook EXCEPT !.pc = "returned", !.delivered = ok]
  /\ UNCHANGED <<managerVars, batchVars, resolver, collect, updatedAt>>

\* the notify* function has returned to the handler that awaited it
NotifyReturned ==
  /\ webhook.pc = "returned"
  /\ webhook' = [webhook EXCEPT !.pc = "idle"]
  /\ UNCHANGED <<managerVars, batchVars, resolver, collect, updatedAt>>

Next ==
  \/ \E t \in ApiTasks, u \in Owners : StartCall(t, u)
  \/ \E t \in Tasks, old \in SUBSET ApiSids : SweepTerminal(t, old)
  \/ \E t \in Tasks, old \in SUBSET ApiSids : SweepQr(t, old)
  \/ \E t \in Tasks : StartCreate(t)
  \/ \E t \in Tasks : CCFind(t)
  \/ \E t \in Tasks : CCInitOk(t)
  \/ \E t \in Tasks, k \in {"net", "other"} : CCInitFail(t, k)
  \/ \E t \in Tasks : CCTimeout(t)
  \/ \E t \in Tasks : CCFailWrite(t)
  \/ \E t \in ApiTasks, s \in ApiSids : RestoreCall(t, s)
  \/ \E t \in ApiTasks, s \in ApiSids : GetOrRestoreCall(t, s)
  \/ \E t \in Tasks : GRFind(t)
  \/ \E t \in Tasks : RSFind(t)
  \/ \E t \in Tasks : RSPoll(t)
  \/ \E t \in ApiTasks, s \in ApiSids : DisconnectCall(t, s)
  \/ \E t \in Tasks, ok \in BOOLEAN : DSDestroy(t, ok)
  \/ \E t \in Tasks : DSWrite(t)
  \/ \E t \in ApiTasks, s \in ApiSids : DeleteCall(t, s)
  \/ \E t \in Tasks, ok \in BOOLEAN : DLDestroy(t, ok)
  \/ \E t \in Tasks : DLDelete(t)
  \/ BootFind
  \/ \E t \in Tasks : BootDelay(t)
  \/ \E t \in Tasks : BootFailWrite(t)
  \/ \E h \in HandleIds : OnQr(h)
  \/ \E h \in HandleIds : OnAuthenticated(h)
  \/ \E h \in HandleIds : OnReady(h)
  \/ \E h \in HandleIds, ok \in BOOLEAN : OnAuthFailure(h, ok)
  \/ \E h \in HandleIds, ok \in BOOLEAN : OnDisconnected(h, ok)

Spec == Init /\ [][Next]_vars

\* ClearAll with restorations in flight
ClearNext ==
  \/ \E t \in ApiTasks : ClearAllCall(t)
  \/ \E t \in Tasks, ok \in BOOLEAN : CADestroy(t, ok)
  \/ \E t \in Tasks : CADeleteMany(t)
  \/ \E t \in Tasks : CAReturn(t)
  \/ \E t \in ApiTasks, s \in ApiSids : RestoreCall(t, s)
  \/ \E t \in Tasks : RSFind(t)
  \/ \E t \in Tasks : RSPoll(t)
  \/ \E t \in Tasks : CCFind(t)
  \/ \E t \in Tasks : CCInitOk(t)
  \/ \E t \in Tasks, k \in {"net", "other"} : CCInitFail(t, k)
  \/ \E t \in Tasks : CCTimeout(t)
  \/ \E t \in Tasks : CCFailWrite(t)
  \/ \E h \in HandleIds : OnQr(h)
  \/ \E h \in HandleIds : OnAuthenticated(h)
  \/ \E h \in HandleIds : OnReady(h)
  \/ \E h \in HandleIds, ok \in BOOLEAN : OnAuthFailure(h, ok)
  \/ \E h \in HandleIds, ok \in BOOLEAN : OnDisconnected(h, ok)

ClearSpec == Init /\ [][ClearNext]_vars

\* the process starts: the store holds records of earlier runs in any
\* status, restoreSessions runs before any request is served
BootStatus == {"pending", "qr", "authenticated", "connected", "disconnected", "failed"}

BootInit ==
  /\ store \in [Sids -> {NoRec} \cup
                 {[status |-> x, qr |-> FALSE, owner |-> 1] : x \in BootStatus}]
  /\ used = {s \in Sids : store[s].status # "absent"}
  /\ InitManager
  /\ InitBatch
  /\ InitHelper

BootNext ==
  \/ BootFind
  \/ \E t \in Tasks : BootDelay(t)
  \/ \E t \in Tasks : BootFailWrite(t)
  \/ \E t \in Tasks : CCFind(t)
  \/ \E t \in Tasks : CCInitOk(t)
  \/ \E t \in Tasks, k \in {"net", "other"} : CCInitFail(t, k)
  \/ \E t \in Tasks : CCTimeout(t)
  \/ \E t \in Tasks : CCFailWrite(t)
  \/ \E h \in HandleIds : OnQr(h)
  \/ \E h \in HandleIds : OnAuthenticated(h)
  \/ \E h \in HandleIds : OnReady(h)
  \/ \E h \in HandleIds, ok \in BOOLEAN : OnAuthFailure(h, ok)
  \/ \E h \in HandleIds, ok \in BOOLEAN : OnDisconnected(h, ok)

BootSpec == BootInit /\ [][BootNext]_vars

\* one batch request served by the message controller; no session call
\* is modelled beside it, getOrRestoreClient is seen by its outcome
BatchInit ==
  /\ store = [s \in Sids |-> NoRec]
  /\ used = {}
  /\ InitManager
  /\ InitBatch
  /\ InitHelper

BatchNext ==
  \/ \E r \in Requests : BatchCall(r)
  \/ \E out \in {"ready", "notready", "throw"} : BPrepare(out)
  \/ \E found \in BOOLEAN : BResolve(found)
  \/ \E ok \in BOOLEAN : BSend(ok)
  \/ BDelay

BatchSpec == BatchInit /\ [][BatchNext]_vars

\* startNewSession called for one of two owners while the store holds one
\* document of an earlier run, in any status, of either owner, last written
\* 0, 30 or 90 minutes ago (in milliseconds); the documents are not written again before the
\* sweeps, and the sweeps see the clock through updatedAt
SweepOwners == {1, 2}
AllStatus == {"pending", "qr", "authenticated", "connected"} \cup TerminalStatus
Ages == {0, 1800000, 5400000}

\* `updatedAt: { $lt: new Date(Date.now() - ms) }`
OlderThan(ms) == {s \in Sids : Exists(s) /\ updatedAt[s] > ms}

SweepInit ==
  /\ store \in [Sids -> {NoRec} \cup
                 {[status |-> x, qr |-> FALSE, owner |-> u] : x \in AllStatus, u \in SweepOwners}]
  /\ \A s \in Sids \ ApiSids : store[s] = NoRec
  /\ used = {s \in Sids : Exists(s)}
  /\ InitManager
  /\ InitBatch
  /\ resolver = [pc |-> "idle"]
  /\ collect = [pc |-> "idle"]
  /\ webhook = [pc |-> "idle"]
  /\ updatedAt \in [Sids -> Ages]
  /\ \A s \in Sids : ~Exists(s) => updatedAt[s] = 0

SweepNext ==
  \/ \E t \in ApiTasks, u \in SweepOwners : StartCall(t, u)
  \/ \E t \in Tasks : SweepTerminal(t, OlderThan(TerminalMaxAge))
  \/ \E t \in Tasks : SweepQr(t, OlderThan(QrMaxAge))
  \/ \E t \in Tasks : StartCreate(t)

SweepSpec == SweepInit /\ [][SweepNext]_vars

\* a batch request with the session manager at work beside it
DispatchNext ==
  \/ BatchNext
  \/ \E j \in 1 .. MaxSess : ClientsDelete(j)

DispatchSpec == BatchInit /\ [][DispatchNext]_vars

ResolveNext ==
  \/ \E fn \in Resolvers, s \in Tokens : ResolveCall(fn, s)
  \/ \E c \in GetChats : ResolveChats(c)

\* one call of resolveRecipient, of either controller, for any token
ResolveSpec == BatchInit /\ [][ResolveNext]_vars

\* one member collection of sendBatchToMultipleGroups
CollectNext ==
  \/ \E n \in 1 .. MaxGroups : CollectCall(n)
  \/ \E out \in {"ok", "skip", "throw"}, list \in ParticipantLists : CollectGroup(out, list)
  \/ \E ok \in BOOLEAN : CollectContact(ok)

CollectSpec == BatchInit /\ [][CollectNext]_vars

\* the webhook manager after the module has been loaded: webhookUrls holds
\* what the environment configures, nothing is registered
WebhookInit ==
  /\ store = [s \in Sids |-> NoRec]
  /\ used = {}
  /\ InitManager
  /\ InitBatch
  /\ resolver = [pc |-> "idle"]
  /\ collect = [pc |-> "idle"]
  /\ updatedAt = [s \in Sids |-> 0]
  /\ webhook \in [pc : {"idle"},
                   webhookUrls : [EventTypes -> {0} \cup Urls],
                   registeredWebhooks : {[e \in EventTypes |-> 0]},
                   last : {[e \in EventTypes |-> 0]},
                   unregistered : {{}},
                   eventType : {"none"}, url : {0}, posts : {0},
                   delivered : {FALSE}, threw : {FALSE}]

WebhookNext ==
  \/ \E e \in EventTypes, u \in Urls : registerWebhook(e, u)
  \/ \E e \in EventTypes : unregisterWebhook(e)
  \/ \E e \in EventTypes : sendWebhook(e)
  \/ \E ok \in BOOLEAN : PostSettled(ok)
  \/ NotifyReturned

WebhookSpec == WebhookInit /\ [][WebhookNext]_vars

\* Delete with restorations in flight: no session is started, so a record
\* that is gone has been deleted by deleteSession
DeleteNext ==
  \/ \E t \in ApiTasks, s \in ApiSids : DeleteCall(t, s)
  \/ \E t \in Tasks, ok \in BOOLEAN : DLDestroy(t, ok)
  \/ \E t \in Tasks : DLDelete(t)
  \/ \E t \in ApiTasks, s \in ApiSids : RestoreCall(t, s)
  \/ \E t \in Tasks : RSFind(t)
  \/ \E t \in Tasks : RSPoll(t)
  \/ \E t \in Tasks : CCFind(t)
  \/ \E t \in Tasks : CCInitOk(t)
  \/ \E t \in Tasks, k \in {"net", "other"} : CCInitFail(t, k)
  \/ \E t \in Tasks : CCTimeout(t)
  \/ \E t \in Tasks : CCFailWrite(t)
  \/ \E h \in HandleIds : OnQr(h)
  \/ \E h \in HandleIds : OnAuthenticated(h)
  \/ \E h \in HandleIds : OnReady(h)
  \/ \E h \in HandleIds, ok \in BOOLEAN : OnAuthFailure(h, ok)
  \/ \E h \in HandleIds, ok \in BOOLEAN : OnDisconnected(h, ok)

DeleteSpec == Init /\ [][DeleteNext]_vars

\* every awaited client call and every timer of the batch run completes
FairBatchSpec == BatchSpec /\ WF_vars(BatchNext)

\* every awaited store operation and every timer of a call completes
CallsProgress ==
  \A t \in ApiTasks :
    /\ WF_vars(RSFind(t))
    /\ WF_vars(CCFind(t))
    /\ WF_vars(CCTimeout(t))
    /\ WF_vars(CCFailWrite(t))
    /\ WF_vars(RSPoll(t))
    /\ WF_vars(CADestroy(t, TRUE))
    /\ WF_vars(CADeleteMany(t))
    /\ WF_vars(CAReturn(t))

FairClearSpec == ClearSpec /\ CallsProgress

\* ---------------------------------------------------------------------
\* the claims
\* ---------------------------------------------------------------------

LiveHandles(s) == {h \in HandleIds : handles[h].sid = s /\ handles[h].live}

\* the call suspended in task t has itself constructed a Client
Created(t) ==
  /\ tasks[t].op \in {"restore", "getOrRestore"}
  /\ tasks[t].pc \in {"cc_init", "cc_failwrite", "rs_poll"}
  /\ tasks[t].h # 0

\* C1: of the Restore / GetOrRestore calls that run at the same time for one
\* session id, at most one constructs a handle (both handles still running)
C1_OneCreationPerConcurrentRestore ==
  \A t1, t2 \in ApiTasks :
    (/\ t1 # t2
     /\ Created(t1) /\ Created(t2)
     /\ tasks[t1].sid = tasks[t2].sid)
    => ~(handles[tasks[t1].h].live /\ handles[tasks[t2].h].live)

\* C2: in every reachable state a session id has at most one handle that
\* was created and is not torn down
C2_AtMostOneLiveHandle ==
  \A s \in Sids : Cardinality(LiveHandles(s)) <= 1

NonTerminalStatus == {"pending", "qr", "authenticated", "connected"}

LegalEdge(a, b) ==
  \/ a = "absent" /\ b = "pending"
  \/ a = "pending" /\ b = "qr"
  \/ a = "qr" /\ b = "authenticated"
  \/ a = "authenticated" /\ b = "connected"
  \/ a \in NonTerminalStatus /\ b \in TerminalStatus
  \/ a \in TerminalStatus /\ b = "pending"

\* C3: the persisted status of a session changes only along the legal
\* edges of the state machine
C3_LegalEdgesOnly ==
  [][\A s \in Sids :
       (store'[s].status # store[s].status /\ store'[s].status # "absent")
       => LegalEdge(store[s].status, store'[s].status)]_vars

\* C4: a terminal status does not move to qr, authenticated or connected
\* unless Restore was requested for the id since the status became terminal
C4_TerminalUntilRestore ==
  [][\A s \in Sids :
       (/\ store[s].status \in TerminalStatus
        /\ store'[s].status \in {"qr", "authenticated", "connected"})
       => s \in restoreReq]_vars

\* C5: when createClient has thrown, the Client it constructed is neither
\* pooled nor running
C5_FailedCreationTornDown ==
  /\ (ret.res = "err" /\ ret.h # 0)
       => (~handles[ret.h].live /\ clients[ret.sid] # ret.h)
  /\ \A t \in BootTasks :
       tasks[t].pc = "boot_failwrite"
       => (~handles[tasks[t].h].live /\ clients[tasks[t].sid] # tasks[t].h)

\* C6: StartSession returns the allocated id to its caller also when the
\* handle creation fails, leaving the record failed or network_error
C6_StartAlwaysSucceeds ==
  ret.op = "start" => ret.res = "ok"

\* the handle is connected: it reported ready, has not reported disconnected
\* since, and was not destroyed
Connected(h) == handles[h].live /\ handles[h].phase = "ready"

\* C7: a handle GetOrRestore returns is ready (connected) when it is returned
C7_GetOrRestoreReturnsReady ==
  (ret.op = "getOrRestore" /\ ret.res = "ok") => Connected(ret.h)

\* C8: when Disconnect returns, the handle it found pooled for the id is
\* no longer pooled (a handle another call pooled meanwhile is not held
\* against it) and the record, if there is one, is disconnected
C8_DisconnectPostcondition ==
  ret.op = "disconnect" =>
    /\ ret.h # 0 => clients[ret.sid] # ret.h
    /\ Exists(ret.sid) => store[ret.sid].status = "disconnected"

\* C9: when Delete returns, no record exists for the id, and when it
\* returns found the handle it found pooled for the id is no longer pooled
\* (a handle another call pooled meanwhile is not held against it)
C9_DeletePostcondition ==
  ret.op = "delete" =>
    /\ ~Exists(ret.sid)
    /\ (ret.res = "found" /\ ret.h # 0) => clients[ret.sid] # ret.h

\* C10: every change of the persisted status to a state of the machine is
\* accompanied by a session.update notification carrying the new status
C10_EveryTransitionNotified ==
  [][\A s \in Sids :
       (/\ store'[s].status # store[s].status
        /\ store'[s].status \in (NonTerminalStatus \cup TerminalStatus) \ {"pending"})
       => <<s, store'[s].status>> \in notes']_vars

\* C11: when a Restore call begins the creation of the new handle for a
\* session whose record was terminal when Restore was requested, the
\* persisted status is pending
C11_RestoreReentersPending ==
  [][\A t \in ApiTasks :
       (/\ tasks[t].op = "restore"
        /\ tasks[t].pc = "cc_find" /\ tasks'[t].pc = "cc_init"
        /\ tasks[t].sid \in restoreReq)
       => store'[tasks[t].sid].status = "pending"]_vars

\* C12: a Restore call whose lookup finds no record fails with the
\* not-found error and creates no handle and no record
C12_RestoreNotFound ==
  [][\A t \in ApiTasks :
       (/\ tasks[t].op = "restore" /\ tasks[t].pc = "rs_find"
        /\ ~Exists(tasks[t].sid)
        /\ tasks'[t] # tasks[t])
       => /\ ret' = [op |-> "restore", sid |-> tasks[t].sid, res |-> "notfound", h |-> 0, n |-> 0]
          /\ handles' = handles
          /\ store' = store
          /\ clients' = clients]_vars

C12_Witness ==
  /\ ret.op = "restore" /\ ret.res = "notfound"
  /\ ~Exists(ret.sid)

\* C14: once a handle has reported auth_failure or disconnected and the
\* handler has run, its session id is not pooled, also when the handler's
\* store update failed
C14_TerminalReportUnpools ==
  [][\A h \in HandleIds :
       (/\ handles[h].phase \notin {"off", "authfail"}
        /\ handles'[h].phase \in {"off", "authfail"})
       => clients'[handles[h].sid] = 0]_vars

\* C15: when ClearAll returns, the pool is empty and the store holds no
\* session record
C15_ClearAllPostcondition ==
  ret.op = "clearAll" =>
    /\ \A s \in Sids : clients[s] = 0
    /\ \A s \in Sids : ~Exists(s)

\* C13: every Restore call returns or fails: it polls at most maxAttempts
\* times, after the last poll it returns the pooled handle whether ready or
\* not and fails only when nothing is pooled
C13_RestoreTerminates ==
  /\ [](\A t \in ApiTasks : tasks[t].op = "restore" => tasks[t].n < maxAttempts)
  /\ [][\A t \in ApiTasks :
          (/\ tasks[t].op = "restore" /\ tasks[t].pc = "rs_poll"
           /\ tasks[t].n = maxAttempts - 1
           /\ tasks'[t] # tasks[t])
          => /\ ret'.op = "restore"
             /\ ret'.res = IF clients[tasks[t].sid] # 0 THEN "ok" ELSE "err"
             /\ ret'.res = "ok" => ret'.h = clients[tasks[t].sid]]_vars
  /\ \A t \in ApiTasks : (tasks[t].op = "restore") ~> (tasks[t].op = "idle")

\* a Restore call has returned, after its last poll, a handle that is not ready
C13_Witness ==
  /\ ret.op = "restore" /\ ret.res = "ok"
  /\ ~Info(ret.h)

SortedSeq(S) ==
  CHOOSE f \in [1 .. Cardinality(S) -> S] :
    \A a, b \in 1 .. Cardinality(S) : a < b => f[a] < f[b]

\* recipients 1..n in the outer loop, the sessions of cm in the inner loop
ExpectedOrder(n, cm) ==
  LET m == Cardinality(cm) ss == SortedSeq(cm) IN
  [k \in 1 .. (n * m) |-> <<((k - 1) \div m) + 1, ss[((k - 1) % m) + 1]>>]

\* C17: when a send-to-many-recipients run ends, the (recipient, session)
\* pairs it processed are, in order, the enumeration with the recipients in
\* the outer loop and the ready sessions in the inner loop, each pair once
C17_RoundRobinOrder ==
  (bpc = "done" /\ breq.mode = "many" /\ resp.code = 200)
  => order = ExpectedOrder(breq.nto, clientMap)

\* two recipients, two ready sessions, delayMin = delayMax = 0
C17_Witness ==
  /\ bpc = "done" /\ breq.mode = "many" /\ resp.code = 200
  /\ breq.dmin = {0} /\ breq.dmax = {0}
  /\ order = << <<1, 1>>, <<1, 2>>, <<2, 1>>, <<2, 2>> >>
  /\ sent >= 4

\* C18: the engine never goes from the sends of a pair whose recipient
\* resolved to the next pair without sleeping a delay in between
C18_DelayNeverSkipped ==
  [][~(/\ bpc = "send"
       /\ bpc' \in {"resolve", "send"}
       /\ <<bi', bj'>> # <<bi, bj>>)]_vars

\* C19: a delay the engine sleeps lies between the delayMin and the
\* delayMax the caller supplied (delayMin <= delayMax), 0 included
C19_DelayWithinWindow ==
  (/\ bpc = "delay"
   /\ breq.dmin # {} /\ breq.dmax # {}
   /\ Value(breq.dmin) <= Value(breq.dmax))
  => \A d \in wait : Value(breq.dmin) <= d /\ d <= Value(breq.dmax)

\* C20: every send adds one entry for its pair to the ledger, a failed one
\* carrying the error; after a failed send the run goes on with the next
\* pair and ends only when no pair is left; the run always reaches its end,
\* where every pair has been processed and the response holds the ledger
C20_SendErrorDoesNotStopRun ==
  /\ [][bpc = "send" =>
          \E e \in [sess : {bj}, to : {bi}, item : 0 .. MaxItems,
                     status : {"sent", "failed"}, err : {"none", "send"}] :
            /\ results' = Append(results, e)
            /\ e.status = "failed" <=> e.err = "send"
            /\ e.status = "failed" =>
                 /\ bpc' \in {"resolve", "send", "done"}
                 /\ bpc' = "done" =>
                      /\ resp'.code = 200
                      /\ \A p \in (1 .. breq.nto) \X clientMap :
                           p[1] < bi \/ (p[1] = bi /\ p[2] <= bj)]_vars
  /\ []((bpc = "done" /\ resp.code = 200) =>
          /\ resp.results = results
          /\ Len(order) = breq.nto * Cardinality(clientMap))
  /\ (bpc = "prepare") ~> (bpc = "done")

\* a run has ended whose ledger holds a failed send followed by the entry
\* of a later pair
C20_Witness ==
  /\ bpc = "done" /\ resp.code = 200
  /\ \E a, b \in 1 .. Len(resp.results) :
       /\ a < b
       /\ resp.results[a].status = "failed" /\ resp.results[a].err = "send"
       /\ <<resp.results[b].to, resp.results[b].sess>>
            # <<resp.results[a].to, resp.results[a].sess>>

\* the ledger entries of the pair (recipient i, session j)
EntriesOf(res, i, j) == {n \in 1 .. Len(res) : res[n].to = i /\ res[n].sess = j}

\* the recipient of pair (i, j) did not resolve
Unresolved(res, i, j) == \E n \in EntriesOf(res, i, j) : res[n].err = "notfound"

\* C21: when a run ends, the ledger holds one entry per content item of the
\* batch for every processed pair whose recipient resolved, also when an
\* earlier item of the pair failed
C21_OneEntryPerItem ==
  (bpc = "done" /\ resp.code = 200) =>
    \A n \in 1 .. Len(order) :
      ~Unresolved(results, order[n][1], order[n][2])
      => Cardinality(EntriesOf(results, order[n][1], order[n][2])) = breq.items

\* C22: a recipient that does not resolve adds one failed entry for its
\* pair, nothing is sent to it and no delay is slept for it; the run goes on
\* with the next pair and ends with a successful response after every pair
C22_UnresolvedRecipientSkipped ==
  /\ [][(bpc = "resolve" /\ bpc' # "send") =>
          /\ results' = Append(results, [sess |-> bj, to |-> bi, item |-> 0,
                                         status |-> "failed", err |-> "notfound"])
          /\ sent' = sent
          /\ wait' = {}
          /\ bpc' \in {"resolve", "done"}
          /\ bpc' = "resolve" =>
               /\ <<bi', bj'>> \in (1 .. breq.nto) \X clientMap
               /\ bi' > bi \/ (bi' = bi /\ bj' > bj)
               /\ \A p \in (1 .. breq.nto) \X clientMap :
                    \/ p[1] < bi \/ (p[1] = bi /\ p[2] <= bj)
                    \/ p[1] > bi' \/ (p[1] = bi' /\ p[2] >= bj')
          /\ bpc' = "done" =>
               /\ resp'.code = 200
               /\ \A p \in (1 .. breq.nto) \X clientMap :
                    p[1] < bi \/ (p[1] = bi /\ p[2] <= bj)]_vars
  /\ [](\A i \in 1 .. MaxTo, j \in 1 .. MaxSess :
          Unresolved(results, i, j) => Cardinality(EntriesOf(results, i, j)) = 1)

\* a run has ended with success: one recipient did not resolve, a later one
\* was sent to
C22_Witness ==
  /\ bpc = "done" /\ resp.code = 200
  /\ \E a, b \in 1 .. Len(resp.results) :
       /\ a < b
       /\ resp.results[a].status = "failed" /\ resp.results[a].err = "notfound"
       /\ resp.results[b].status = "sent"
       /\ resp.results[b].to # resp.results[a].to

\* C23: a session that was not ready when the run began has a ledger entry
\* with status failed, and no entry of a send through it
C23_NotReadyRecordedFailed ==
  \A n \in 1 .. Len(results) :
    results[n].err = "notready" =>
      /\ results[n].status = "failed"
      /\ \A m \in 1 .. Len(results) :
           results[m].sess = results[n].sess => results[m].to = 0

\* C24: a run in which no requested session was ready does not end with a
\* successful response
C24_NoReadySessionIsAnError ==
  (bpc = "done" /\ clientMap = {}) => resp.code # 200

\* C25: a successful response carries the counts of sent and failed entries,
\* every entry of its ledger has status sent or failed, and the two counts
\* add up to the number of entries
C25_ResponseCounts ==
  (bpc = "done" /\ resp.code = 200) =>
    /\ resp.counts # {}
    /\ \A n \in 1 .. Len(resp.results) : resp.results[n].status \in {"sent", "failed"}
    /\ \A c \in resp.counts : c.sent + c.failed = Len(resp.results)

\* C26: the recipient list of a multi-group dispatch holds each phone number
\* at most once, and each recipient carries one source group: the first
\* selected group in which the collection came upon that member
C26_MembersDeduplicated ==
  collect.pc # "idle" =>
    /\ \A a, b \in 1 .. Len(collect.allContacts) :
         collect.allContacts[a].phone = collect.allContacts[b].phone => a = b
    /\ \A a \in 1 .. Len(collect.allContacts) :
         LET c == collect.allContacts[a] IN
         /\ <<c.fromGroup, c.phone>> \in collect.seen
         /\ \A g \in 1 .. collect.n :
              <<g, c.phone>> \in collect.seen => c.fromGroup <= g

\* three groups were selected, a member of the first two is in the list
\* once, with the first group as its source
C26_Witness ==
  /\ collect.pc = "done"
  /\ collect.n = 3
  /\ \E ph \in Phones :
       /\ {<<1, ph>>, <<2, ph>>} \subseteq collect.seen
       /\ <<3, ph>> \notin collect.seen
       /\ \E a \in 1 .. Len(collect.allContacts) :
            collect.allContacts[a] = [phone |-> ph, fromGroup |-> 1]

\* C27: a token that equals no group name and is a case-insensitive
\* substring of two or more group names resolves to no chat id: none of the
\* matching groups is picked
C27_AmbiguousNotPicked ==
  (/\ resolver.pc = "returned" /\ resolver.asked /\ resolver.chats.ok
   /\ ExactMatches(resolver.chats.list, resolver.recipient) = {}
   /\ Cardinality(PartialMatches(resolver.chats.list, resolver.recipient)) >= 2)
  => /\ resolver.resolved.id = {}
     /\ \A i \in PartialMatches(resolver.chats.list, resolver.recipient) :
          resolver.chats.list[i].id \notin resolver.resolved.id

\* a token made of digits and of the separators space, dash and plus, with
\* at least MinPhoneDigits digits
BarePhone(s) ==
  /\ Len(CleanNumber(s)) >= MinPhoneDigits
  /\ \A i \in 1 .. Len(s) : IsDigit(s[i]) \/ s[i] \in {" ", "-", "+"}

\* C28: a bare phone number resolves to its digits followed by the person
\* suffix
C28_PhoneNumberToPersonChat ==
  (resolver.pc = "returned" /\ BarePhone(resolver.recipient))
  => resolver.resolved.id = {CleanNumber(resolver.recipient) \o PersonSuffix}

\* C29: resolveRecipient can be called with every token, it never throws
\* and once the listing settles it returns a chat id or no id; for a token
\* with a chat suffix, with a dash or that is a phone number it returns
\* without asking for the chat listing, and what it returns is determined
\* by the token
C29_ResolveTotal ==
  /\ [](resolver.pc # "threw")
  /\ [](resolver.pc = "idle" =>
          \A fn \in Resolvers, s \in Tokens : ENABLED ResolveCall(fn, s))
  /\ [](resolver.pc = "getChats" => \A c \in GetChats : ENABLED ResolveChats(c))
  /\ [][resolver.pc = "getChats" => resolver'.pc = "returned"]_vars
  /\ [](resolver.pc = "returned" =>
          /\ Cardinality(resolver.resolved.id) <= 1
          /\ (HasSuffix(resolver.recipient) \/ Includes(resolver.recipient, <<"-">>)
              \/ IsPhone(resolver.recipient)) =>
               /\ ~resolver.asked
               /\ resolver.chats = NoChats
               /\ resolver.resolved.id =
                    {IF HasSuffix(resolver.recipient) THEN resolver.recipient
                     ELSE IF Includes(resolver.recipient, <<"-">>)
                          THEN resolver.recipient \o GroupSuffix
                          ELSE CleanNumber(resolver.recipient) \o PersonSuffix})

\* a group name was looked up through a handle whose chat listing failed:
\* the resolver returned no id
C29_Witness ==
  /\ resolver.pc = "returned" /\ resolver.asked
  /\ ~resolver.chats.ok
  /\ resolver.resolved.id = {}

\* C30: for the same token and the same chat listing the resolver of the
\* message controller and the resolver of the media senders return the same
\* chat id, or both none
C30_ResolversAgree ==
  resolver.pc = "returned" =>
    \A fn \in Resolvers :
      Resolve(fn, resolver.recipient, resolver.chats).id = resolver.resolved.id

\* C31: a webhook POST is attempted once; when it fails nothing is thrown
\* to the caller of the notify function, and the failed and the successful
\* POST leave the sessions, the pool and the calls in flight as they were
C31_PostFailureSwallowed ==
  /\ [](webhook.posts <= 1 /\ ~webhook.threw)
  /\ [][webhook.pc = "post" =>
          /\ webhook'.pc \in {"post", "returned"}
          /\ webhook'.posts = webhook.posts
          /\ managerVars' = managerVars]_vars

\* a POST failed and sendWebhook returned normally
C31_Witness ==
  /\ webhook.pc = "returned"
  /\ webhook.posts = 1
  /\ ~webhook.delivered
  /\ ~webhook.threw

\* C32: sendWebhook for an event type that has no URL, neither registered
\* nor configured, performs no POST and returns without error
C32_NoUrlNoPost ==
  [][\A e \in EventTypes :
       (/\ webhook.pc = "idle" /\ webhook'.pc # "idle" /\ webhook'.eventType = e
        /\ webhook.registeredWebhooks[e] = 0 /\ webhook.webhookUrls[e] = 0)
       => /\ webhook'.pc = "returned"
          /\ webhook'.posts = 0
          /\ webhook'.url = 0
          /\ ~webhook'.threw]_vars

\* sendWebhook returned for an event type without URL
C32_Witness ==
  /\ webhook.pc = "returned"
  /\ webhook.posts = 0
  /\ webhook.registeredWebhooks[webhook.eventType] = 0
  /\ webhook.webhookUrls[webhook.eventType] = 0

\* C33: an event type has one URL in the Map, and a POST for an event type
\* that has been registered goes to the URL of its latest registration
C33_LastRegistrationWins ==
  /\ [](\A e \in EventTypes :
          webhook.last[e] # 0 =>
            /\ webhook.registeredWebhooks[e] = webhook.last[e]
            /\ UrlFor(webhook, e) = webhook.last[e])
  /\ [][\A e \in EventTypes :
          (/\ webhook.pc = "idle" /\ webhook'.pc = "post" /\ webhook'.eventType = e
           /\ webhook.last[e] # 0)
          => webhook'.url = webhook.last[e] /\ webhook'.posts = 1]_vars

\* a POST goes to the registered URL of an event type whose configured URL
\* is another one
C33_Witness ==
  /\ webhook.pc = "post"
  /\ webhook.last[webhook.eventType] = webhook.url
  /\ webhook.webhookUrls[webhook.eventType] \notin {0, webhook.url}

\* C34: the qr payload of a session record is set only while the status of
\* the record is qr
C34_QrOnlyWhileAwaitingScan ==
  \A s \in Sids : store[s].qr => store[s].status = "qr"

\* C35: the two sweeps of startNewSession delete only documents of the
\* calling owner that are terminal and older than 1h or in qr and older than
\* 10min, and when the second sweep is done none of these is left
C35_SweepExactlyStale ==
  [][\A t \in Tasks :
       (tasks[t].pc \in {"sn_sweep1", "sn_sweep2"} /\ tasks'[t].pc # tasks[t].pc) =>
         LET stale == {s \in Sids :
                         /\ store[s].owner = tasks[t].u
                         /\ \/ store[s].status \in TerminalStatus /\ s \in OlderThan(TerminalMaxAge)
                            \/ store[s].status = "qr" /\ s \in OlderThan(QrMaxAge)}
         IN /\ \A s \in Sids : (Exists(s) /\ ~Exists(s)') => s \in stale
            /\ \A s \in Sids \ stale : store'[s] = store[s]
            /\ tasks'[t].pc = "sn_create" => \A s \in stale : ~Exists(s)']_vars

\* C36: no step of a batch run begins a sendMessage through a client that
\* has left the pool since the request took it
C36_NoSendAfterRemoval ==
  [][(bpc' = "send" /\ (bpc # "send" \/ bk' # bk)) => bj' \notin unpooled']_vars

\* C37: when the terminal callback of a handle, or the failure of its
\* creation, empties the pool entry of its session, the entry was that
\* handle's own
C37_RemovalOnlyOfOwnEntry ==
  [][\A s \in Sids :
       (clients[s] # 0 /\ clients'[s] = 0) =>
         /\ \A h \in HandleIds :
              (/\ handles[h].sid = s
               /\ handles'[h].phase # handles[h].phase
               /\ handles'[h].phase \in {"off", "authfail"})
              => clients[s] = h
         /\ \A t \in Tasks :
              (/\ tasks[t].pc = "cc_failwrite" /\ tasks'[t] # tasks[t]
               /\ tasks[t].sid = s)
              => clients[s] = tasks[t].h]_vars

\* C38: once deleteSession has deleted the record of a session (it returns
\* found), no record with that id exists again: no handler creates one
C38_DeletedStaysDeleted ==
  [][\A s \in ApiSids : (s \in used /\ ~Exists(s)) => ~Exists(s)']_vars

\* C39: every session id with a pooled handle has a session record
C39_PooledHasRecord ==
  \A s \in Sids : clients[s] # 0 => Exists(s)

\* C40: an event type that was unregistered and not registered again has no
\* URL sendWebhook would post to, and getRegisteredWebhooks returns exactly
\* the event types that have one
C40_UnregisterStopsPosts ==
  /\ \A e \in webhook.unregistered : UrlFor(webhook, e) = 0
  /\ getRegisteredWebhooks(webhook) = {e \in EventTypes : UrlFor(webhook, e) # 0}

====
